---------------------------- MODULE Spec2Model ----------------------------
(***************************************************************************)
(* A model of financial_report_generator.py: the processed-articles        *)
(* ledger, the free-text report parser, the price-trend enrichment with    *)
(* its sticky rate limit, and the run orchestrator main().                 *)
(*                                                                         *)
(* Text is modelled at the level of characters: a Python string is a       *)
(* sequence of one-character strings, and the regular expressions of the   *)
(* source are modelled by the matching they perform on such sequences.     *)
(***************************************************************************)
EXTENDS Integers, Sequences, FiniteSets, TLC

VARIABLES
    pc,                 \* position of the process: where main() stands
    run,                \* number of the current process invocation
    ledger,             \* content of processed_articles.txt, or None when the file is absent
    ledgerAtStart,      \* the file as it was when the current run began
    all_articles,       \* main: the urls of the fetched articles, in fetch order
    new_articles,       \* main: the urls that passed the ledger filter
    report_text,        \* main: what analyze_market_with_gemini returned
    parsed_report,      \* main: what parse_ai_report returned
    parseAttempted,     \* whether parse_ai_report was called in this run
    pending,            \* send_email_report: the unique tickers not yet looked up
    chart_data_cache,   \* send_email_report: ticker -> (trend_data, message)
    API_LIMIT_REACHED,  \* the module-level flag of line 22
    trendCalls,         \* the calls of get_stock_trend in this run, in order
    emails,             \* the emails handed to SMTP and accepted in this run
    sendAttempts,       \* the number of SMTP deliveries attempted in this run
    outcome,            \* the checkpoint at which the run ended
    prevFeed,           \* the articles the previous run fetched
    prevOutcome         \* the checkpoint at which the previous run ended

vars == <<pc, run, ledger, ledgerAtStart, all_articles, new_articles, report_text,
          parsed_report, parseAttempted, pending, chart_data_cache,
          API_LIMIT_REACHED, trendCalls, emails, sendAttempts, outcome,
          prevFeed, prevOutcome>>

\* Python's None: a value no character sequence equals.
None == <<"None">>

\* Truthiness of a value that is None or a sequence (str, list).
Truthy(x) == x # None /\ x # <<>>

(***************************************************************************)
(* Literals of the source, as character sequences.                         *)
(***************************************************************************)
UpperLetters ==
    <<"A","B","C","D","E","F","G","H","I","J","K","L","M","N","O","P","Q","R","S","T",
      "U","V","W","X","Y","Z">>

LowerLetters ==
    <<"a","b","c","d","e","f","g","h","i","j","k","l","m","n","o","p","q","r","s","t",
      "u","v","w","x","y","z">>

DigitChars ==
    <<"0","1","2","3","4","5","6","7","8","9">>

\* alternatives of the section-header pattern, line 120
HeaderShort ==
    <<"S","h","o","r","t","-","T","e","r","m"," ","O","p","p","o","r","t","u","n","i",
      "t","i","e","s">>

HeaderLong ==
    <<"L","o","n","g","-","T","e","r","m"," ","P","o","t","e","n","t","i","a","l">>

\* literal of the overview pattern, line 122
OverviewLabel ==
    <<"O","v","e","r","a","l","l"," ","M","a","r","k","e","t"," ","O","v","e","r","v",
      "i","e","w",":","*","*">>

\* literal of the sentiment pattern, lines 125 and 127
SentimentLabel ==
    <<"M","a","r","k","e","t"," ","S","e","n","t","i","m","e","n","t",":">>

\* default sentiment, line 117
Neutral ==
    <<"N","e","u","t","r","a","l">>

Bullish ==
    <<"B","u","l","l","i","s","h">>

Bearish ==
    <<"B","e","a","r","i","s","h">>

\* line 146
ParseFailureMarker ==
    <<"C","o","u","l","d"," ","n","o","t"," ","p","a","r","s","e"," ","t","h","e"," ",
      "A","I"," ","r","e","s","p","o","n","s","e","."," ","S","e","e"," ","c","o","n",
      "s","o","l","e"," ","f","o","r"," ","r","a","w"," ","o","u","t","p","u","t",".">>

\* line 141
ShortTermKey ==
    <<"s","h","o","r","t","-","t","e","r","m">>

\* line 142
LongTermKey ==
    <<"l","o","n","g","-","t","e","r","m">>

\* keywords of line 80
KwNA ==
    <<"n","/","a">>

KwNotProvided ==
    <<"n","o","t"," ","p","r","o","v","i","d","e","d">>

KwPrivate ==
    <<"p","r","i","v","a","t","e">>

\* line 93
LimitNotice ==
    <<"2","5"," ","r","e","q","u","e","s","t","s"," ","p","e","r"," ","d","a","y">>

(***************************************************************************)
(* Characters and strings: what str and re do, character by character.     *)
(***************************************************************************)
\* \s of the re module, over the characters the model uses.
SpaceChars == {" ", "\n", "\t"}

Range(s) == {s[i] : i \in 1..Len(s)}

UpperSet == Range(UpperLetters)
LowerSet == Range(LowerLetters)
DigitSet == Range(DigitChars)

\* \d and \w of the re module.
IsDigit(c) == c \in DigitSet

WordChars == UpperSet \cup LowerSet \cup DigitSet \cup {"_"}

IsWordChar(c) == c \in WordChars

IsSpace(c) == c \in SpaceChars

\* str.lower and str.upper on one character.
ToLower == [c \in UpperSet |-> LowerLetters[CHOOSE i \in 1..Len(UpperLetters) : UpperLetters[i] = c]]
ToUpper == [c \in LowerSet |-> UpperLetters[CHOOSE i \in 1..Len(LowerLetters) : LowerLetters[i] = c]]

LowerChar(c) == IF c \in UpperSet THEN ToLower[c] ELSE c

UpperChar(c) == IF c \in LowerSet THEN ToUpper[c] ELSE c

\* str.lower()
Lower(s) == [i \in 1..Len(s) |-> LowerChar(s[i])]

\* str.capitalize(): first character upper-cased, the rest lower-cased.
Capitalize(s) == [i \in 1..Len(s) |-> IF i = 1 THEN UpperChar(s[i]) ELSE LowerChar(s[i])]

\* s[a:b) with 1-based a, exclusive b.
Slice(s, a, b) == SubSeq(s, a, b - 1)

\* The literal lit stands in t at position p.
StartsAt(t, p, lit) ==
    /\ p + Len(lit) - 1 <= Len(t)
    /\ \A i \in 1..Len(lit) : t[p + i - 1] = lit[i]

\* The same under re.IGNORECASE.
StartsAtI(t, p, lit) ==
    /\ p + Len(lit) - 1 <= Len(t)
    /\ \A i \in 1..Len(lit) : LowerChar(t[p + i - 1]) = LowerChar(lit[i])

\* Python's `lit in t`.
Contains(t, lit) == \E p \in 1..(Len(t) + 1) : StartsAt(t, p, lit)

\* The position after the longest run of characters of S starting at p
\* (a greedy S* of a regular expression).
SkipIn(t, p, S) ==
    CHOOSE q \in p..(Len(t) + 1) :
        /\ \A i \in p..(q - 1) : t[i] \in S
        /\ q = Len(t) + 1 \/ t[q] \notin S

SkipSpace(t, p) == SkipIn(t, p, SpaceChars)

\* The position of the next line break at or after p, or Len(t) + 1: how far
\* a greedy .* reaches without re.DOTALL.
EndOfLine(t, p) ==
    CHOOSE q \in p..(Len(t) + 1) :
        /\ \A i \in p..(q - 1) : t[i] # "\n"
        /\ q = Len(t) + 1 \/ t[q] = "\n"

\* str.strip(): from the first character that is not white space to the last.
Strip(s) ==
    LET keep == {i \in 1..Len(s) : ~IsSpace(s[i])}
    IN  IF keep = {} THEN <<>>
        ELSE SubSeq(s, CHOOSE i \in keep : \A j \in keep : i <= j,
                       CHOOSE i \in keep : \A j \in keep : i >= j)

(***************************************************************************)
(* parse_ai_report: the free-text parser.                                  *)
(***************************************************************************)
Min(S) == CHOOSE x \in S : \A y \in S : x <= y

Stars == <<"*", "*">>

\* The report parse_ai_report starts from (line 117).
EmptyReport == [overview |-> <<>>, sentiment |-> Neutral, short_term |-> <<>>, long_term |-> <<>>]

\* The pattern \*\*\d*\.*\s*(Short-Term Opportunities|Long-Term Potential) of
\* line 120 tried at position p, under re.IGNORECASE. Each of \d*, \.*, \s* is
\* greedy, and giving one of them less never helps: the character given back
\* fits nothing that follows.
HeaderAt(t, p) ==
    IF ~StartsAt(t, p, Stars) THEN [found |-> FALSE]
    ELSE LET q1 == SkipIn(t, p + 2, DigitSet)
             q2 == SkipIn(t, q1, {"."})
             q3 == SkipSpace(t, q2)
         IN  IF StartsAtI(t, q3, HeaderShort)
             THEN [found |-> TRUE, group |-> q3, end |-> q3 + Len(HeaderShort)]
             ELSE IF StartsAtI(t, q3, HeaderLong)
             THEN [found |-> TRUE, group |-> q3, end |-> q3 + Len(HeaderLong)]
             ELSE [found |-> FALSE]

\* re.split with one capturing group: the text before each match, the group,
\* and at last the rest.
RECURSIVE SplitFrom(_, _)
SplitFrom(t, start) ==
    LET at == {p \in start..Len(t) : HeaderAt(t, p).found}
    IN  IF at = {} THEN <<Slice(t, start, Len(t) + 1)>>
        ELSE LET p == Min(at)
                 m == HeaderAt(t, p)
             IN  <<Slice(t, start, p), Slice(t, m.group, m.end)>> \o SplitFrom(t, m.end)

ReSplitSections(t) == SplitFrom(t, 1)

\* re.search of a literal under re.IGNORECASE: the first position at or after
\* p where it stands, 0 when there is none.
FindI(t, p, lit) ==
    LET at == {q \in p..Len(t) : StartsAtI(t, q, lit)}
    IN  IF at = {} THEN 0 ELSE Min(at)

\* The pattern Market Sentiment:\s*(\w+) of lines 125 and 127 tried at p.
SentimentAt(t, p) ==
    IF ~StartsAtI(t, p, SentimentLabel) THEN [found |-> FALSE]
    ELSE LET q == SkipSpace(t, p + Len(SentimentLabel))
             e == SkipIn(t, q, WordChars)
         IN  IF e > q THEN [found |-> TRUE, group |-> q, end |-> e] ELSE [found |-> FALSE]

\* re.search of the sentiment pattern: the first match at or after p.
SearchSentiment(t, p) ==
    LET at == {q \in p..Len(t) : SentimentAt(t, q).found}
    IN  IF at = {} THEN [found |-> FALSE] ELSE SentimentAt(t, Min(at))

\* re.sub of the sentiment pattern by "": every match removed (line 127).
RECURSIVE RemoveSentiment(_, _)
RemoveSentiment(t, p) ==
    LET at == {q \in p..Len(t) : SentimentAt(t, q).found}
    IN  IF at = {} THEN Slice(t, p, Len(t) + 1)
        ELSE Slice(t, p, Min(at)) \o RemoveSentiment(t, SentimentAt(t, Min(at)).end)

\* The word that follows the sentiment label becomes the sentiment (line 126).
SentimentOf(word) == Capitalize(word)

\* ExtractOverview as it would be without the test of line 123: the whole
\* text before the first header taken as the overview text.
ExtractOverview_NoLabel(overview_section, data) ==
    LET overview_text == Strip(overview_section)
        sentiment_match == SearchSentiment(overview_text, 1)
        withSentiment ==
            IF sentiment_match.found
            THEN [data EXCEPT !.sentiment = SentimentOf(Slice(overview_text,
                                  sentiment_match.group, sentiment_match.end))]
            ELSE data
    IN  [withSentiment EXCEPT !.overview = Strip(RemoveSentiment(overview_text, 1))]

\* Lines 121-127: overview and sentiment, taken from what follows the label
\* "Overall Market Overview:**" in the text before the first header.
ExtractOverview(overview_section, data) ==
    LET o == FindI(overview_section, 1, OverviewLabel)
    IN  IF o = 0 THEN data
        ELSE LET overview_text == Strip(Slice(overview_section, o + Len(OverviewLabel),
                                              Len(overview_section) + 1))
                 sentiment_match == SearchSentiment(overview_text, 1)
                 withSentiment ==
                     IF sentiment_match.found
                     THEN [data EXCEPT !.sentiment = SentimentOf(Slice(overview_text,
                                           sentiment_match.group, sentiment_match.end))]
                     ELSE data
             IN  [withSentiment EXCEPT !.overview = Strip(RemoveSentiment(overview_text, 1))]

CloseMark == <<")", ":", "*", "*">>

\* Group 2, (.*?) before \):\*\*  : the first end, on the line of b, at which
\* "):**" stands; 0 when there is none.
TickerEnd(t, b) ==
    LET C == {e \in b..EndOfLine(t, b) : StartsAt(t, e, CloseMark)}
    IN  IF C = {} THEN 0 ELSE Min(C)

\* Group 1, (.*?) before \s*\( : the ends, on the line of a, after which
\* white space and "(" follow and the rest of the pattern can match.
NameEnds(t, a) ==
    {e \in a..EndOfLine(t, a) :
        LET r == SkipSpace(t, e)
        IN  r <= Len(t) /\ t[r] = "(" /\ TickerEnd(t, r + 1) # 0}

\* The pattern [\*\d]\.?\s*\*\*(.*?)\s*\((.*?)\):\*\*\s*(.*) of line 132 tried
\* at position p: the three groups and the position after the match. The lazy
\* groups take the first end that lets the rest match; \s* may run over line
\* breaks, . may not.
OpportunityAt(t, p) ==
    IF p > Len(t) \/ ~(t[p] = "*" \/ IsDigit(t[p])) THEN [found |-> FALSE]
    ELSE LET q0 == IF p + 1 <= Len(t) /\ t[p + 1] = "." THEN p + 2 ELSE p + 1
             q  == SkipSpace(t, q0)
             a  == q + 2
             E  == NameEnds(t, a)
         IN  IF ~StartsAt(t, q, Stars) \/ E = {} THEN [found |-> FALSE]
             ELSE LET e1 == Min(E)
                      b  == SkipSpace(t, e1) + 1
                      e2 == TickerEnd(t, b)
                      j  == SkipSpace(t, e2 + Len(CloseMark))
                      end == EndOfLine(t, j)
                  IN  [found |-> TRUE, end |-> end,
                       groups |-> <<Slice(t, a, e1), Slice(t, b, e2), Slice(t, j, end)>>]

\* Line 135: the record appended for one match.
OpportunityRecord(match) ==
    [name |-> Strip(match[1]), ticker |-> Strip(match[2]), justification |-> Strip(match[3])]

\* ScanOpportunities as it would be with a pattern that stops at the name: a
\* bullet and a bold mark yield a record even when ticker and justification
\* do not follow.
RECURSIVE ScanOpportunities_Partial(_, _)
ScanOpportunities_Partial(t, p) ==
    LET at == {q \in p..Len(t) : (t[q] = "*" \/ IsDigit(t[q]))
                                 /\ StartsAt(t, SkipSpace(t, SkipIn(t, q + 1, {"."})), Stars)}
    IN  IF at = {} THEN <<>>
        ELSE LET m == OpportunityAt(t, Min(at))
             IN  IF m.found
                 THEN <<OpportunityRecord(m.groups)>> \o ScanOpportunities_Partial(t, m.end)
                 ELSE <<[name |-> Strip(Slice(t, Min(at) + 1, EndOfLine(t, Min(at))))]>>
                      \o ScanOpportunities_Partial(t, EndOfLine(t, Min(at)) + 1)

\* pattern.findall and the loop of lines 133-135: the matches from left to
\* right, each search resuming where the last match ended.
RECURSIVE ScanOpportunities(_, _)
ScanOpportunities(t, p) ==
    LET at == {q \in p..Len(t) : OpportunityAt(t, q).found}
    IN  IF at = {} THEN <<>>
        ELSE LET m == OpportunityAt(t, Min(at))
             IN  <<OpportunityRecord(m.groups)>> \o ScanOpportunities(t, m.end)

parse_opportunities(text_block) == ScanOpportunities(text_block, 1)

\* The loop of lines 138-143 from the (1-based) index k on. sections[i+1]
\* raises IndexError when the list ends at the header; what the loop assigned
\* before stays in data.
RECURSIVE SectionLoop(_, _, _)
SectionLoop(sections, k, data) ==
    IF k > Len(sections) THEN [raised |-> FALSE, data |-> data]
    ELSE IF k + 1 > Len(sections) THEN [raised |-> TRUE, data |-> data]
    ELSE LET header  == sections[k]
             content == sections[k + 1]
             next ==
                 IF Contains(Lower(header), ShortTermKey)
                 THEN [data EXCEPT !.short_term = parse_opportunities(content)]
                 ELSE IF Contains(Lower(header), LongTermKey)
                 THEN [data EXCEPT !.long_term = parse_opportunities(content)]
                 ELSE data
         IN  SectionLoop(sections, k + 2, next)

\* Lines 116-147. The except clause of line 144 catches what the body raises
\* and marks the overview.
parse_ai_report(text) ==
    IF ~Truthy(text) THEN EmptyReport
    ELSE LET sections == ReSplitSections(text)
             body == SectionLoop(sections, 2, ExtractOverview(sections[1], EmptyReport))
         IN  IF body.raised THEN [body.data EXCEPT !.overview = ParseFailureMarker]
             ELSE body.data

(***************************************************************************)
(* The processed-articles ledger.                                          *)
(***************************************************************************)
\* The lines a text file yields when iterated: each runs up to and including
\* its line break, and a last line without one counts too.
RECURSIVE FileLines(_)
FileLines(content) ==
    IF content = <<>> THEN <<>>
    ELSE LET e == EndOfLine(content, 1)
         IN  IF e > Len(content) THEN <<content>>
             ELSE <<SubSeq(content, 1, e)>> \o FileLines(SubSeq(content, e + 1, Len(content)))

\* Lines 26-28: the empty set when the file is absent, else its stripped lines.
load_processed_articles(file) ==
    IF file = None THEN {} ELSE {Strip(line) : line \in Range(FileLines(file))}

\* What f.write(f"{url}\n") appends for the urls in the given order.
RECURSIVE WrittenLines(_)
WrittenLines(order) ==
    IF order = <<>> THEN <<>> ELSE Head(order) \o <<"\n">> \o WrittenLines(Tail(order))

\* Lines 30-32: open(..., 'a') creates the file when absent and appends one
\* line per url; order is the order in which the set is iterated.
save_processed_articles(file, order) ==
    (IF file = None THEN <<>> ELSE file) \o WrittenLines(order)

\* The orders in which Python may iterate a set.
IterationOrders(S) == {s \in [1..Cardinality(S) -> S] : Range(s) = S}

\* Line 238: the articles whose url is not in the loaded set, in fetch order.
FilterNew(articles, processed_urls) == SelectSeq(articles, LAMBDA u : u \notin processed_urls)

(***************************************************************************)
(* The collaborators' answers.                                             *)
(***************************************************************************)
\* Urls as the news API gives them; the source takes a['url'] as it comes,
\* so one of them carries a trailing blank.
UrlA == <<"a">>
UrlB == <<"b">>
UrlBPadded == <<"b", " ">>

\* What newsapi.get_everything may do: raise, or answer with a status and
\* the articles (here their urls).
NewsResponses ==
    {[exc |-> TRUE, status |-> "error", articles |-> <<>>],
     [exc |-> FALSE, status |-> "error", articles |-> <<UrlA>>],
     [exc |-> FALSE, status |-> "ok", articles |-> <<>>],
     [exc |-> FALSE, status |-> "ok", articles |-> <<UrlA>>],
     [exc |-> FALSE, status |-> "ok", articles |-> <<UrlB, UrlA>>],
     [exc |-> FALSE, status |-> "ok", articles |-> <<UrlBPadded>>]}

\* Lines 34-46.
get_financial_news(response) ==
    IF response.exc THEN <<>>
    ELSE IF response.status = "ok" /\ response.articles # <<>> THEN response.articles
    ELSE <<>>

\* The environment: the values os.getenv yields ("" for an unset variable).
Environments ==
    {[NEWS_API_KEY |-> "k1", GEMINI_API_KEY |-> "k2", ALPHA_VANTAGE_API_KEY |-> "k3",
      SMTP_HOST |-> "host", SMTP_USER |-> "user", EMAIL_PASSWORD |-> "pw",
      RECIPIENT_EMAILS |-> <<"r@x">>],
     [NEWS_API_KEY |-> "k1", GEMINI_API_KEY |-> "", ALPHA_VANTAGE_API_KEY |-> "k3",
      SMTP_HOST |-> "host", SMTP_USER |-> "user", EMAIL_PASSWORD |-> "pw",
      RECIPIENT_EMAILS |-> <<"r@x">>],
     [NEWS_API_KEY |-> "k1", GEMINI_API_KEY |-> "k2", ALPHA_VANTAGE_API_KEY |-> "k3",
      SMTP_HOST |-> "host", SMTP_USER |-> "user", EMAIL_PASSWORD |-> "pw",
      RECIPIENT_EMAILS |-> <<"">>]}

\* The test of line 230.
ConfigComplete(env) ==
    /\ \A k \in {"NEWS_API_KEY", "GEMINI_API_KEY", "ALPHA_VANTAGE_API_KEY",
                 "SMTP_HOST", "SMTP_USER", "EMAIL_PASSWORD"} : env[k] # ""
    /\ env.RECIPIENT_EMAILS # <<>> /\ env.RECIPIENT_EMAILS[1] # ""

\* Answers of the model.
ReportShared ==
    <<"*","*","O","v","e","r","a","l","l"," ","M","a","r","k","e","t"," ","O","v","e",
      "r","v","i","e","w",":","*","*"," ","M","a","r","k","e","t"," ","S","e","n","t",
      "i","m","e","n","t",":"," ","B","e","a","r","i","s","h","\n","*","*","1","."," ",
      "S","h","o","r","t","-","T","e","r","m"," ","O","p","p","o","r","t","u","n","i",
      "t","i","e","s","*","*","\n","*"," ","*","*","A","c","m","e"," ","(","X","Y","Z",
      ")",":","*","*"," ","a","\n","*"," ","*","*","F","o","o"," ","(","P","r","i","v",
      "a","t","e"," ","C","o","m","p","a","n","y",")",":","*","*"," ","b","\n","*","*",
      "2","."," ","L","o","n","g","-","T","e","r","m"," ","P","o","t","e","n","t","i",
      "a","l","*","*","\n","1","."," ","*","*","B","a","r"," ","(","X","Y","Z",")",":",
      "*","*"," ","c","\n","2","."," ","*","*","B","a","z"," ","(","A","B","C",")",":",
      "*","*"," ","d","\n">>

ReportPlain ==
    <<"N","o","t","h","i","n","g"," ","t","o"," ","r","e","p","o","r","t",".">>

XYZ ==
    <<"X","Y","Z">>

ABC ==
    <<"A","B","C">>

PrivateCompany ==
    <<"P","r","i","v","a","t","e"," ","C","o","m","p","a","n","y">>

ReportSentinels ==
    <<"*","*","S","h","o","r","t","-","T","e","r","m"," ","O","p","p","o","r","t","u",
      "n","i","t","i","e","s","*","*","\n","*"," ","*","*","F","o","o"," ","(",")",":",
      "*","*"," ","b","\n","1","."," ","*","*","Q"," ","(","N","/","A",")",":","*","*",
      " ","c","\n">>

\* What model.generate_content may do: raise, or answer with a text.
ModelResponses ==
    {[exc |-> TRUE, text |-> <<>>],
     [exc |-> FALSE, text |-> <<>>],
     [exc |-> FALSE, text |-> ReportPlain],
     [exc |-> FALSE, text |-> ReportSentinels],
     [exc |-> FALSE, text |-> ReportShared]}

\* Lines 48-75: the text, or None when the call raised.
analyze_market_with_gemini(response) == IF response.exc THEN None ELSE response.text

(***************************************************************************)
(* get_stock_trend and the chart.                                          *)
(***************************************************************************)
\* The trend_data of a lookup that yields no prices. The source returns None
\* there and reads trend_data only through its truth value (lines 108, 165,
\* 166), under which None and the empty list are alike.
NoPrices == <<>>

RateLimited == "Daily API Limit Reached"
PrivateOrNA == "Private Company / N/A"

\* The number of daily closes kept (line 90).
SeriesLimit == 30

\* What the price-history request may do: raise (transport error, bad status,
\* bad JSON), or yield a JSON object, here a function from keys to values.
PriceResponses ==
    {[exc |-> TRUE, data |-> <<>>],
     [exc |-> FALSE, data |-> ("Time Series (Daily)" :> <<5, 3>>)],
     [exc |-> FALSE, data |-> ("Time Series (Daily)" :> <<7>>)],
     [exc |-> FALSE, data |-> ("Information" :> LimitNotice)],
     [exc |-> FALSE, data |-> ("Information" :> KwNotProvided)],
     [exc |-> FALSE, data |-> ("Error Message" :> "Invalid API call")],
     [exc |-> FALSE, data |-> <<>>]}

Reverse(s) == [i \in 1..Len(s) |-> s[Len(s) + 1 - i]]

Take(s, n) == SubSeq(s, 1, IF Len(s) < n THEN Len(s) ELSE n)

\* IsPrivateTicker as it would be without the .lower() of line 80.
IsPrivateTicker_CaseSensitive(ticker) ==
    \/ ~Truthy(ticker)
    \/ \E keyword \in {KwNA, KwNotProvided, KwPrivate} : Contains(ticker, keyword)

\* The test of line 80: no ticker, or one of the keywords in its lower case.
IsPrivateTicker(ticker) ==
    \/ ~Truthy(ticker)
    \/ \E keyword \in {KwNA, KwNotProvided, KwPrivate} : Contains(Lower(ticker), keyword)

\* Lines 84-105: the request is made and its answer classified.
FetchTrend(response) ==
    IF response.exc THEN [result |-> <<NoPrices, "Network Error">>, limit |-> FALSE]
    ELSE IF "Time Series (Daily)" \in DOMAIN response.data
    THEN [result |-> <<Reverse(Take(response.data["Time Series (Daily)"], SeriesLimit)), "Success">>,
          limit |-> FALSE]
    ELSE IF "Information" \in DOMAIN response.data
            /\ Contains(response.data["Information"], LimitNotice)
    THEN [result |-> <<NoPrices, RateLimited>>, limit |-> TRUE]
    ELSE IF "Error Message" \in DOMAIN response.data
    THEN [result |-> <<NoPrices, "Invalid Symbol">>, limit |-> FALSE]
    ELSE [result |-> <<NoPrices, "API Error">>, limit |-> FALSE]

\* get_stock_trend as it would be without the test of line 79.
get_stock_trend_NoShortCircuit(ticker, limit_reached, response) ==
    IF IsPrivateTicker(ticker)
    THEN [result |-> <<NoPrices, PrivateOrNA>>, flag |-> limit_reached, network |-> FALSE]
    ELSE LET fetched == FetchTrend(response)
         IN  [result |-> fetched.result, flag |-> limit_reached \/ fetched.limit, network |-> TRUE]

\* Lines 77-105: the returned pair, the flag afterwards, and whether a
\* request went to the price-history collaborator.
get_stock_trend(ticker, limit_reached, response) ==
    IF limit_reached
    THEN [result |-> <<NoPrices, RateLimited>>, flag |-> limit_reached, network |-> FALSE]
    ELSE IF IsPrivateTicker(ticker)
    THEN [result |-> <<NoPrices, PrivateOrNA>>, flag |-> limit_reached, network |-> FALSE]
    ELSE LET fetched == FetchTrend(response)
         IN  [result |-> fetched.result, flag |-> fetched.limit, network |-> TRUE]

\* Lines 107-113: no chart for fewer than two prices; else the colour and
\* the data the chart url encodes.
create_trendline_chart_url(historical_data) ==
    IF historical_data = NoPrices \/ Len(historical_data) < 2 THEN None
    ELSE <<IF historical_data[Len(historical_data)] >= historical_data[1]
           THEN "#28a745" ELSE "#dc3545",
           historical_data>>

\* OpportunityCard as it would be if the cache were read under the name of
\* the company instead of its ticker.
OpportunityCard_ByName(opp, cache) ==
    LET entry == IF opp.name \in DOMAIN cache THEN cache[opp.name] ELSE <<NoPrices, "N/A">>
        trend_data == entry[1]
        message == entry[2]
        chart_url == IF trend_data # NoPrices THEN create_trendline_chart_url(trend_data) ELSE None
        fallback_text == IF trend_data = NoPrices THEN message ELSE ""
    IN  [name |-> opp.name, ticker |-> opp.ticker, justification |-> opp.justification,
         chart |-> chart_url, no_chart |-> IF chart_url # None THEN "" ELSE fallback_text]

\* Lines 164-167: the card of one opportunity, drawn from the cache.
OpportunityCard(opp, cache) ==
    LET entry == IF opp.ticker \in DOMAIN cache THEN cache[opp.ticker] ELSE <<NoPrices, "N/A">>
        trend_data == entry[1]
        message == entry[2]
        chart_url == IF trend_data # NoPrices THEN create_trendline_chart_url(trend_data) ELSE None
        fallback_text == IF trend_data = NoPrices THEN message ELSE ""
    IN  [name |-> opp.name, ticker |-> opp.ticker, justification |-> opp.justification,
         chart |-> chart_url, no_chart |-> IF chart_url # None THEN "" ELSE fallback_text]

\* Lines 160-168: one card per opportunity (the empty list stands for the
\* placeholder paragraph).
create_opportunities_html(opportunities, cache) ==
    [i \in 1..Len(opportunities) |-> OpportunityCard(opportunities[i], cache)]

\* Lines 151-152: the set of the tickers of all opportunities.
UniqueTickers(report) == {opp.ticker : opp \in Range(report.short_term \o report.long_term)}

\* Lines 170-206: the message built from the report and the cache.
BuildEmail(report, cache, limit_reached) ==
    [sentiment |-> report.sentiment, overview |-> report.overview,
     short_term |-> create_opportunities_html(report.short_term, cache),
     long_term |-> create_opportunities_html(report.long_term, cache),
     warning_banner |-> limit_reached]

\* What the SMTP exchange of lines 208-211 may do.
SmtpOutcomes == {"sent", "connect_raises", "login_raises", "send_raises"}

(***************************************************************************)
(* main(): one process invocation after another.                           *)
(***************************************************************************)
\* The number of process invocations the model follows.
MaxRuns == 2

\* The checkpoints at which a run ends before anything is sent.
EarlyCheckpoints == {"missing_config", "no_articles", "no_new_articles", "model_failed"}

\* The empty dict {} of line 153.
EmptyCache == <<>>

\* The state after the module is loaded (line 22 clears the flag), before
\* main() runs, on the first invocation: no ledger file yet.
Init ==
    /\ pc = "start"
    /\ run = 1
    /\ ledger = None
    /\ ledgerAtStart = None
    /\ all_articles = <<>>
    /\ new_articles = <<>>
    /\ report_text = None
    /\ parsed_report = EmptyReport
    /\ parseAttempted = FALSE
    /\ pending = {}
    /\ chart_data_cache = EmptyCache
    /\ API_LIMIT_REACHED = FALSE
    /\ trendCalls = <<>>
    /\ emails = <<>>
    /\ sendAttempts = 0
    /\ outcome = "running"
    /\ prevFeed = <<>>
    /\ prevOutcome = "none"

\* Lines 218-243: the configuration test, the ledger load, the news fetch
\* and the filter, up to the call of the model.
MainStart ==
    /\ pc = "start"
    /\ \E env \in Environments, news \in NewsResponses :
         IF ~ConfigComplete(env)
         THEN /\ pc' = "done"
              /\ outcome' = "missing_config"
              /\ UNCHANGED <<all_articles, new_articles>>
         ELSE LET processed_urls == load_processed_articles(ledger)
                  fetched == get_financial_news(news)
                  fresh == FilterNew(fetched, processed_urls)
              IN  /\ all_articles' = fetched
                  /\ new_articles' = fresh
                  /\ pc' = IF fetched = <<>> \/ fresh = <<>> THEN "done" ELSE "analyze"
                  /\ outcome' = IF fetched = <<>> THEN "no_articles"
                                ELSE IF fresh = <<>> THEN "no_new_articles"
                                ELSE outcome
    /\ UNCHANGED <<run, ledger, ledgerAtStart, report_text, parsed_report, parseAttempted,
                   pending, chart_data_cache, API_LIMIT_REACHED, trendCalls, emails,
                   sendAttempts, prevFeed, prevOutcome>>

\* Analyze as it would be with the ledger update of line 251 placed after
\* the if statement instead of inside it.
Analyze_SavesAnyway ==
    /\ pc = "analyze"
    /\ \E response \in ModelResponses, order \in IterationOrders(Range(new_articles)) :
         LET text == analyze_market_with_gemini(response)
         IN  /\ report_text' = text
             /\ IF Truthy(text)
                THEN /\ parsed_report' = parse_ai_report(text)
                     /\ parseAttempted' = TRUE
                     /\ pending' = UniqueTickers(parse_ai_report(text))
                     /\ pc' = "enrich"
                     /\ UNCHANGED <<outcome, ledger>>
                ELSE /\ pc' = "done"
                     /\ outcome' = "model_failed"
                     /\ ledger' = save_processed_articles(ledger, order)
                     /\ UNCHANGED <<parsed_report, parseAttempted, pending>>
    /\ UNCHANGED <<run, ledgerAtStart, all_articles, new_articles, chart_data_cache,
                   API_LIMIT_REACHED, trendCalls, emails, sendAttempts, prevFeed, prevOutcome>>

\* Lines 245-253 and 151-153: the model is called; a text that is None or
\* empty ends the run, any other is parsed and its tickers are collected.
Analyze ==
    /\ pc = "analyze"
    /\ \E response \in ModelResponses :
         LET text == analyze_market_with_gemini(response)
         IN  /\ report_text' = text
             /\ IF Truthy(text)
                THEN /\ parsed_report' = parse_ai_report(text)
                     /\ parseAttempted' = TRUE
                     /\ pending' = UniqueTickers(parse_ai_report(text))
                     /\ pc' = "enrich"
                     /\ UNCHANGED outcome
                ELSE /\ pc' = "done"
                     /\ outcome' = "model_failed"
                     /\ UNCHANGED <<parsed_report, parseAttempted, pending>>
    /\ UNCHANGED <<run, ledger, ledgerAtStart, all_articles, new_articles, chart_data_cache,
                   API_LIMIT_REACHED, trendCalls, emails, sendAttempts, prevFeed, prevOutcome>>

\* One turn of the loop of lines 154-158: the next ticker of the set, in
\* whatever order the set is iterated, is looked up and cached.
LookupTicker ==
    /\ pc = "enrich"
    /\ \E ticker \in pending, response \in PriceResponses :
         LET got == get_stock_trend(ticker, API_LIMIT_REACHED, response)
         IN  /\ chart_data_cache' = [t \in DOMAIN chart_data_cache \cup {ticker} |->
                                        IF t = ticker THEN got.result ELSE chart_data_cache[t]]
             /\ API_LIMIT_REACHED' = got.flag
             /\ trendCalls' = Append(trendCalls, [ticker |-> ticker, trend_data |-> got.result[1],
                                                  message |-> got.result[2], network |-> got.network])
             /\ pending' = pending \ {ticker}
    /\ UNCHANGED <<pc, run, ledger, ledgerAtStart, all_articles, new_articles, report_text,
                   parsed_report, parseAttempted, emails, sendAttempts, outcome, prevFeed,
                   prevOutcome>>

\* Lines 160-214 and 251: the message is built and handed to SMTP, whose
\* failure is caught and printed; then main() appends the urls of the new
\* articles to the ledger.
Deliver ==
    /\ pc = "enrich"
    /\ pending = {}
    /\ \E smtp \in SmtpOutcomes, order \in IterationOrders(Range(new_articles)) :
         /\ emails' = IF smtp = "sent"
                      THEN Append(emails, BuildEmail(parsed_report, chart_data_cache, API_LIMIT_REACHED))
                      ELSE emails
         /\ outcome' = IF smtp = "sent" THEN "delivered" ELSE "delivery_failed"
         /\ ledger' = save_processed_articles(ledger, order)
    /\ sendAttempts' = sendAttempts + 1
    /\ pc' = "done"
    /\ UNCHANGED <<run, ledgerAtStart, all_articles, new_articles, report_text, parsed_report,
                   parseAttempted, pending, chart_data_cache, API_LIMIT_REACHED, trendCalls,
                   prevFeed, prevOutcome>>

\* The script is started again: a new process, with the ledger file as the
\* last one left it.
NewRun ==
    /\ pc = "done"
    /\ run < MaxRuns
    /\ run' = run + 1
    /\ ledgerAtStart' = ledger
    /\ prevFeed' = all_articles
    /\ prevOutcome' = outcome
    /\ pc' = "start"
    /\ all_articles' = <<>>
    /\ new_articles' = <<>>
    /\ report_text' = None
    /\ parsed_report' = EmptyReport
    /\ parseAttempted' = FALSE
    /\ pending' = {}
    /\ chart_data_cache' = EmptyCache
    /\ API_LIMIT_REACHED' = FALSE
    /\ trendCalls' = <<>>
    /\ emails' = <<>>
    /\ sendAttempts' = 0
    /\ outcome' = "running"
    /\ UNCHANGED ledger

Next == MainStart \/ Analyze \/ LookupTicker \/ Deliver \/ NewRun

Spec == Init /\ [][Next]_vars

(***************************************************************************)
(* The parser on its own: parse_ai_report applied to texts put together    *)
(* from pieces of the report format, whole and truncated.                  *)
(***************************************************************************)
FragOverviewLabel ==
    <<"*","*","O","v","e","r","a","l","l"," ","M","a","r","k","e","t"," ","O","v","e",
      "r","v","i","e","w",":","*","*">>

FragSentimentLabel ==
    <<"M","a","r","k","e","t"," ","S","e","n","t","i","m","e","n","t",":">>

FragBullish ==
    <<" ","B","u","l","l","i","s","h">>

FragMixed ==
    <<" ","m","i","x","e","d">>

FragNewline ==
    <<"\n">>

FragProse ==
    <<"G","e","n","e","r","a","l"," ","c","a","l","m",".">>

FragShortHeader ==
    <<"*","*","S","h","o","r","t","-","T","e","r","m"," ","O","p","p","o","r","t","u",
      "n","i","t","i","e","s","*","*">>

FragLongHeader ==
    <<"*","*","2","."," ","l","o","n","g","-","t","e","r","m"," ","p","o","t","e","n",
      "t","i","a","l">>

FragOpportunity ==
    <<"*"," ","*","*","A","c","m","e"," ","C","o","r","p"," ","(","A","C","M","E",")",
      ":","*","*"," ","s","t","r","o","n","g"," ","e","a","r","n","i","n","g","s",".">>

FragTruncated ==
    <<"1","."," ","*","*","F","o","o"," ","(","P","r","i","v","a","t","e">>

\* the scenario input of the specification's section 8
ScenarioText ==
    <<"M","a","r","k","e","t"," ","S","e","n","t","i","m","e","n","t",":"," ","B","u",
      "l","l","i","s","h","\n","G","e","n","e","r","a","l"," ","c","a","l","m",".","\n",
      "*","*","S","h","o","r","t","-","T","e","r","m"," ","O","p","p","o","r","t","u",
      "n","i","t","i","e","s","*","*","\n","*"," ","*","*","A","c","m","e"," ","C","o",
      "r","p"," ","(","A","C","M","E",")",":","*","*"," ","s","t","r","o","n","g"," ",
      "e","a","r","n","i","n","g","s",".","\n","*","*","L","o","n","g","-","T","e","r",
      "m"," ","P","o","t","e","n","t","i","a","l","*","*">>

GeneralCalm ==
    <<"G","e","n","e","r","a","l"," ","c","a","l","m",".">>

AcmeCorp ==
    <<"A","c","m","e"," ","C","o","r","p">>

ACME ==
    <<"A","C","M","E">>

StrongEarnings ==
    <<"s","t","r","o","n","g"," ","e","a","r","n","i","n","g","s",".">>

Fragments ==
    <<FragOverviewLabel, FragSentimentLabel, FragBullish, FragMixed, FragNewline, FragProse,
      FragShortHeader, FragLongHeader, FragOpportunity, FragTruncated>>

\* The largest number of pieces a text is put together from.
MaxFrags == 3

RECURSIVE Concat(_)
Concat(pieces) == IF pieces = <<>> THEN <<>> ELSE Head(pieces) \o Concat(Tail(pieces))

\* The scenario input with the overview label in front of it.
LabelledScenarioText == FragOverviewLabel \o <<" ">> \o ScenarioText

\* The inputs: every concatenation of up to MaxFrags pieces (the empty text
\* among them), and the two scenario texts.
FragmentChoices == UNION {[1..n -> 1..Len(Fragments)] : n \in 0..MaxFrags}

ParserTexts ==
    {Concat([i \in DOMAIN choice |-> Fragments[choice[i]]]) : choice \in FragmentChoices}
    \cup {ScenarioText, LabelledScenarioText}

ParserInit ==
    /\ pc = "parse"
    /\ report_text \in ParserTexts
    /\ run = 1
    /\ ledger = None
    /\ ledgerAtStart = None
    /\ all_articles = <<>>
    /\ new_articles = <<>>
    /\ parsed_report = EmptyReport
    /\ parseAttempted = FALSE
    /\ pending = {}
    /\ chart_data_cache = EmptyCache
    /\ API_LIMIT_REACHED = FALSE
    /\ trendCalls = <<>>
    /\ emails = <<>>
    /\ sendAttempts = 0
    /\ outcome = "running"
    /\ prevFeed = <<>>
    /\ prevOutcome = "none"

\* Line 249 alone: the call of parse_ai_report.
ParseReport ==
    /\ pc = "parse"
    /\ parsed_report' = parse_ai_report(report_text)
    /\ parseAttempted' = TRUE
    /\ pc' = "parsed"
    /\ UNCHANGED <<run, ledger, ledgerAtStart, all_articles, new_articles, report_text,
                   pending, chart_data_cache, API_LIMIT_REACHED, trendCalls, emails,
                   sendAttempts, outcome, prevFeed, prevOutcome>>

ParserNext == ParseReport

ParserSpec == ParserInit /\ [][ParserNext]_vars

(***************************************************************************)
(* The properties.                                                         *)
(***************************************************************************)
\* The run went through the delivery step (lines 250-251).
ReachedDelivery == pc = "done" /\ outcome \in {"delivered", "delivery_failed"}

\* C1: the urls of a run's new articles are appended to the ledger only if
\* the email was delivered; when delivery fails the ledger is not updated.
C1_LedgerOnlyAfterDelivery ==
    (pc = "done" /\ outcome = "delivery_failed") => ledger = ledgerAtStart

\* C2: after a run that delivered its report and updated the ledger, a run
\* that fetches the same articles finds none of them new, ends at the "no
\* new articles" checkpoint and sends no email.
C2_SecondRunIdempotent ==
    (pc = "done" /\ prevOutcome = "delivered" /\ all_articles = prevFeed)
        => /\ new_articles = <<>>
           /\ outcome = "no_new_articles"
           /\ sendAttempts = 0
           /\ emails = <<>>

\* C3: no url once recorded leaves the ledger, and what is loaded after the
\* urls S were saved contains what was loaded before and S.
C3_LedgerMonotonic ==
    /\ load_processed_articles(ledgerAtStart) \subseteq load_processed_articles(ledger)
    /\ ReachedDelivery =>
           Range(new_articles) \subseteq load_processed_articles(ledger)

\* C4: once a call of get_stock_trend returned the rate-limited status, every
\* later call of the run returns it too, with no prices and no request to
\* the price-history collaborator, whatever the ticker.
C4_StickyRateLimit ==
    \A i, j \in DOMAIN trendCalls :
        (i < j /\ trendCalls[i].message = RateLimited)
            => /\ trendCalls[j].message = RateLimited
               /\ trendCalls[j].trend_data = NoPrices
               /\ ~trendCalls[j].network

\* A rate-limited lookup was followed by the call for a ticker that is a
\* market symbol.
C4_Witness ==
    \E i, j \in DOMAIN trendCalls :
        /\ i < j
        /\ trendCalls[i].message = RateLimited
        /\ trendCalls[i].network
        /\ trendCalls[j].ticker \in {XYZ, ABC}

\* A ticker that is absent or holds, in whatever case, "n/a", "not
\* provided" or "private".
SentinelTicker(t) ==
    \/ t = <<>>
    \/ \E keyword \in {KwNA, KwNotProvided, KwPrivate} :
           \E p \in 1..Len(t) : StartsAtI(t, p, keyword)

TickersOfReport ==
    {parsed_report.short_term[i].ticker : i \in DOMAIN parsed_report.short_term}
    \cup {parsed_report.long_term[i].ticker : i \in DOMAIN parsed_report.long_term}

\* K: the distinct tickers of the report that are market symbols.
DistinctSymbols == Cardinality({t \in TickersOfReport : ~SentinelTicker(t)})

\* The requests made to the price-history collaborator in this run.
PriceLookups == Cardinality({i \in DOMAIN trendCalls : trendCalls[i].network})

CallsFor(t) == {i \in DOMAIN trendCalls : trendCalls[i].ticker = t}

\* The card shows what the call returned: the chart of its prices when
\* there are at least two, else its message when there are none.
CardFromCall(card, call) ==
    /\ card.chart # None <=> Len(call.trend_data) >= 2
    /\ card.chart # None => card.chart[2] = call.trend_data
    /\ card.no_chart = IF call.trend_data = NoPrices THEN call.message ELSE ""

\* C5 as the specification states it: enrichment performs exactly K price lookups.
C5_ExactlyKLookups ==
    ReachedDelivery => PriceLookups = DistinctSymbols

\* C5 as the code has it: get_stock_trend is called once for each distinct ticker;
\* the price lookups number K when no lookup is rate-limited and never more
\* than K; every opportunity is rendered from the one result obtained for
\* its ticker.
C5_OneCallPerTicker ==
    ReachedDelivery =>
        /\ \A t \in TickersOfReport : Cardinality(CallsFor(t)) = 1
        /\ Len(trendCalls) = Cardinality(TickersOfReport)
        /\ PriceLookups <= DistinctSymbols
        /\ (\A i \in DOMAIN trendCalls : trendCalls[i].message # RateLimited)
               => PriceLookups = DistinctSymbols
        /\ \A n \in DOMAIN emails :
               \A card \in Range(emails[n].short_term \o emails[n].long_term) :
                   \E i \in CallsFor(card.ticker) : CardFromCall(card, trendCalls[i])

\* Four opportunities on two symbols, one of them shared, were looked up
\* twice and the report was delivered.
C5_Witness ==
    /\ pc = "done" /\ outcome = "delivered"
    /\ Len(parsed_report.short_term \o parsed_report.long_term) = 4
    /\ DistinctSymbols = 2
    /\ PriceLookups = 2
    /\ \E n \in DOMAIN emails :
           \E c1 \in DOMAIN emails[n].short_term, c2 \in DOMAIN emails[n].long_term :
               /\ emails[n].short_term[c1].ticker = emails[n].long_term[c2].ticker
               /\ emails[n].short_term[c1].chart # None

\* C8: a run that ends at an early checkpoint sends no email, attempts no
\* parse and leaves the ledger as it was when the run began.
C8_EarlyAbortNoSideEffects ==
    (pc = "done" /\ outcome \in EarlyCheckpoints)
        => /\ sendAttempts = 0
           /\ emails = <<>>
           /\ ~parseAttempted
           /\ trendCalls = <<>>
           /\ ledger = ledgerAtStart

\* A second run, with new articles at hand and a ledger on file, ended
\* because the model call failed.
C8_Witness ==
    /\ pc = "done" /\ outcome = "model_failed"
    /\ run = 2 /\ ledger # None /\ new_articles # <<>>

\* C9 as the specification states it: a call for a sentinel ticker returns PrivateOrNA, no
\* prices, and makes no request, at any point of the run.
C9_SentinelAlwaysPrivate ==
    \A i \in DOMAIN trendCalls :
        SentinelTicker(trendCalls[i].ticker)
            => /\ trendCalls[i].message = PrivateOrNA
               /\ trendCalls[i].trend_data = NoPrices
               /\ ~trendCalls[i].network

\* C9 as the code has it: a call for a sentinel ticker makes no request and returns
\* no prices; its status is PrivateOrNA unless an earlier lookup of the run
\* was rate-limited, and RateLimited from then on.
C9_SentinelPrivateUnlessLimited ==
    \A i \in DOMAIN trendCalls :
        SentinelTicker(trendCalls[i].ticker)
            => /\ ~trendCalls[i].network
               /\ trendCalls[i].trend_data = NoPrices
               /\ trendCalls[i].message =
                      IF \E k \in 1..(i - 1) : trendCalls[k].message = RateLimited
                      THEN RateLimited ELSE PrivateOrNA

\* "Private Company" was looked up after a symbol's lookup was rate-limited.
C9_Witness ==
    \E i, j \in DOMAIN trendCalls :
        /\ i < j
        /\ trendCalls[i].message = RateLimited
        /\ trendCalls[j].ticker = PrivateCompany

\* The parser returned.
Parsed == pc = "parsed" /\ parseAttempted

IsOpportunity(r) == DOMAIN r = {"name", "ticker", "justification"}

\* C6: for every input parse_ai_report returns a report with the four
\* fields, its two lists holding only complete records.
C6_ParserTotal ==
    Parsed =>
        /\ DOMAIN parsed_report = {"overview", "sentiment", "short_term", "long_term"}
        /\ \A i \in DOMAIN parsed_report.short_term : IsOpportunity(parsed_report.short_term[i])
        /\ \A i \in DOMAIN parsed_report.long_term : IsOpportunity(parsed_report.long_term[i])

\* A text that breaks off inside an opportunity line, after a header, was
\* parsed.
C6_Witness ==
    /\ Parsed
    /\ report_text = FragShortHeader \o FragOpportunity \o FragTruncated
    /\ Len(parsed_report.short_term) = 1

AcmeRecord == [name |-> AcmeCorp, ticker |-> ACME, justification |-> StrongEarnings]

\* C7 as the specification states it: the scenario input yields the overview "General calm."
\* and the sentiment Bullish.
C7_ScenarioAsClaimed ==
    (Parsed /\ report_text = ScenarioText)
        => parsed_report = [overview |-> GeneralCalm, sentiment |-> Bullish,
                            short_term |-> <<AcmeRecord>>, long_term |-> <<>>]

\* C7 as the code has it: overview and sentiment come only from what follows the
\* label "Overall Market Overview:**"; a text without it has the empty
\* overview and the sentiment Neutral. The scenario input yields those and
\* the Acme record; with the label in front it yields
\* "General calm." and Bullish.
C7_OverviewNeedsLabel ==
    Parsed =>
        /\ (\A p \in 1..Len(report_text) : ~StartsAtI(report_text, p, OverviewLabel))
               => parsed_report.overview = <<>> /\ parsed_report.sentiment = Neutral
        /\ report_text = ScenarioText
               => parsed_report = [overview |-> <<>>, sentiment |-> Neutral,
                                   short_term |-> <<AcmeRecord>>, long_term |-> <<>>]
        /\ report_text = LabelledScenarioText
               => parsed_report = [overview |-> GeneralCalm, sentiment |-> Bullish,
                                   short_term |-> <<AcmeRecord>>, long_term |-> <<>>]

\* The scenario input was parsed.
C7_Witness == Parsed /\ report_text = ScenarioText /\ parsed_report.short_term = <<AcmeRecord>>

\* C10: the sentiment of the returned report is one of Bullish, Bearish,
\* Neutral.
C10_SentimentDomain ==
    Parsed => parsed_report.sentiment \in {Bullish, Bearish, Neutral}
=============================================================================
